---- MODULE Spec2Model ----
(***************************************************************************)
(* State-machine model of the two RSS-to-Kindle scripts:                   *)
(*   RSS_script.py     feeds -> newspaper3k -> EPUB -> e-mail              *)
(*   rss_to_kindle.py  feed  -> BeautifulSoup heuristics -> PDF -> e-mail  *)
(* Time is counted in tenths of a day.  A published date is <<>> when the  *)
(* entry has no usable published_parsed and <<d>> otherwise.  An entry's   *)
(* title / link field says whether feedparser exposes that attribute.      *)
(***************************************************************************)
EXTENDS Integers, Sequences, FiniteSets, TLC

VARIABLES script, pc, feeds, max_articles, creds, articles, todo, file, sent,
          exit_code, trace

vars == <<script, pc, feeds, max_articles, creds, articles, todo, file, sent,
          exit_code, trace>>

\* ---------------------------------------------------------------- bounds
MaxEntries == 2
MaxLimit == 3
MaxNodes == 3

\* ------------------------------------------------------------- constants
Now == 100
DayUnits == 10
days_old == 1

\* ---------------------------------------------------------------- helpers
Min(a, b) == IF a < b THEN a ELSE b

SliceOneMore(s, k) == SubSeq(s, 1, Min(Len(s), k + 1))

\* Python's s[:k], negative k included.
Slice(s, k) ==
  LET n == Len(s)
      e == IF k < 0 THEN (IF n + k < 0 THEN 0 ELSE n + k)
                    ELSE (IF k > n THEN n ELSE k)
  IN  SubSeq(s, 1, e)

\* =================================================== HTML pages (world)
\* A page is the element list of the document in document order; depth gives
\* the nesting (an element's descendants are the following elements that are
\* deeper).  text says whether the element has a non-blank text node of its
\* own; that text is the token Tok[i].
Tok == <<"t1", "t2", "t3", "t4", "t5", "t6">>

Descendants(nodes, i) ==
  {j \in (i + 1)..Len(nodes) :
      \A k \in (i + 1)..j : nodes[k].depth > nodes[i].depth}

\* soup.find(tag): first element in document order with that tag, 0 if none.
FindTag(nodes, tag) ==
  LET hits == {i \in 1..Len(nodes) : nodes[i].tag = tag}
  IN  IF hits = {} THEN 0 ELSE CHOOSE i \in hits : \A j \in hits : i <= j

\* soup.find(tag, class_=c): first element with that tag carrying class c.
FindClass(nodes, tag, c) ==
  LET hits == {i \in 1..Len(nodes) : nodes[i].tag = tag /\ c \in nodes[i].cls}
  IN  IF hits = {} THEN 0 ELSE CHOOSE i \in hits : \A j \in hits : i <= j

\* Only the label divs themselves are dropped, not what they contain.
LabelsRemovedShallow(nodes, body) ==
  {d \in Descendants(nodes, body) :
      nodes[d].tag = "div" /\ "post-labels" \in nodes[d].cls}

\* article_body.find_all("div", {'class': 'post-labels'}) + decompose():
\* the elements that disappear from the container.
LabelsRemoved(nodes, body) ==
  LET labels == {d \in Descendants(nodes, body) :
                    nodes[d].tag = "div" /\ "post-labels" \in nodes[d].cls}
  IN  UNION {{d} \cup Descendants(nodes, d) : d \in labels}

\* The stripped, non-blank text nodes of the kept elements, in document order.
RECURSIVE TextFrom(_, _, _)
TextFrom(nodes, keep, i) ==
  IF i > Len(nodes) THEN <<>>
  ELSE (IF i \in keep /\ nodes[i].text THEN <<Tok[i]>> ELSE <<>>)
       \o TextFrom(nodes, keep, i + 1)

\* separator.join(strings): a string is the sequence of its pieces.
RECURSIVE Join(_, _)
Join(strings, separator) ==
  IF Len(strings) <= 1 THEN strings
  ELSE <<Head(strings), separator>> \o Join(Tail(strings), separator)

\* The two-character separator '\\n' of the source (backslash, n).
BackslashN == "\\n"

\* container.get_text(separator='\\n', strip=True) once `removed` is
\* decomposed.
GetText(nodes, body, removed) ==
  Join(TextFrom(nodes, ({body} \cup Descendants(nodes, body)) \ removed, 1),
       BackslashN)

\* content.replace('\\n', '<br>')
RECURSIVE ReplaceBr(_)
ReplaceBr(content) ==
  IF content = <<>> THEN <<>>
  ELSE <<IF Head(content) = BackslashN THEN "<br>" ELSE Head(content)>>
       \o ReplaceBr(Tail(content))

CouldNotExtract == <<"Could not extract article content.">>
ErrorFetching == <<"Error fetching article">>

\* `a or b` on find() results (a Tag is always truthy, None is falsy).
OrElse(a, b) == IF a # 0 THEN a ELSE b

\* The 'content' div tried before the <article> element.
FallbackBodyContentFirst(nodes) ==
  OrElse(FindClass(nodes, "div", "content"),
         OrElse(FindTag(nodes, "article"),
                FindClass(nodes, "div", "post")))

\* soup.find('article') or soup.find('div', class_='content')
\*                       or soup.find('div', class_='post')

FallbackBody(nodes) ==
  OrElse(FindTag(nodes, "article"),
         OrElse(FindClass(nodes, "div", "content"),
                FindClass(nodes, "div", "post")))

extract_article_content(page) ==
  IF ~page.ok THEN ErrorFetching
  ELSE LET nodes == page.nodes
           post_body == FindClass(nodes, "div", "post-body")
       IN  IF post_body # 0
           THEN GetText(nodes, post_body, LabelsRemoved(nodes, post_body))
           ELSE LET article_body == FallbackBody(nodes)
                IN  IF article_body # 0
                    THEN GetText(nodes, article_body, {})
                    ELSE CouldNotExtract

\* ====================================================== RSS_script.py
cutoff_date == Now - days_old * DayUnits

\* feedparser.parse(url).entries: an unreachable or malformed feed has none.
ParsedEntries(feed) == IF feed.reachable THEN feed.entries ELSE <<>>

FreshEnoughStrict(pub_date) == pub_date > cutoff_date

\* pub_date >= cutoff_date
FreshEnough(pub_date) == pub_date >= cutoff_date

\* Body of the try block for one entry: the appended article or nothing.

FetchEntry(f, i, entry) ==
  IF entry.published_parsed = <<>> THEN <<>>
  ELSE LET pub_date == entry.published_parsed[1]
       IN  IF FreshEnough(pub_date)
           THEN IF entry.title /\ entry.link
                THEN <<[src |-> <<f, i>>, date |-> pub_date,
                        has_content |-> FALSE, content |-> <<>>]>>
                ELSE <<>>
           ELSE <<>>

RECURSIVE FetchFeed(_, _, _)
FetchFeed(f, listed, i) ==
  IF i > Len(listed) THEN <<>>
  ELSE FetchEntry(f, i, listed[i]) \o FetchFeed(f, listed, i + 1)

\* Filter each feed by age first, then cap.
RECURSIVE FetchFromFilterFirst(_, _, _)
FetchFromFilterFirst(fs, max, f) ==
  IF f > Len(fs) THEN <<>>
  ELSE SubSeq(FetchFeed(f, ParsedEntries(fs[f]), 1), 1,
              Min(max, Len(FetchFeed(f, ParsedEntries(fs[f]), 1))))
       \o FetchFromFilterFirst(fs, max, f + 1)

\* The loop over the feeds, each capped to its first `max` entries.
RECURSIVE FetchFrom(_, _, _)
FetchFrom(fs, max, f) ==
  IF f > Len(fs) THEN <<>>
  ELSE FetchFeed(f, Slice(ParsedEntries(fs[f]), max), 1)
       \o FetchFrom(fs, max, f + 1)

fetch_articles(fs, max) == FetchFrom(fs, max, 1)

\* newspaper3k on the entry's URL: "error" (download/parse raises), "empty"
\* (article.text is ''), "text".
NewspaperText(np) == IF np = "text" THEN <<"text">> ELSE <<>>

Entry(src) == feeds[src[1]].entries[src[2]]

\* extract_content(article_data): the article after the call.
extract_content(article_data) ==
  LET np == Entry(article_data.src).np
  IN  IF np = "error" THEN article_data
      ELSE [article_data EXCEPT !.has_content = TRUE,
                                !.content = NewspaperText(np)]

\* article.get('content') is truthy.
Qualifies(article) == article.has_content /\ article.content # <<>>

Section(article) == [src |-> article.src, content |-> article.content]

RECURSIVE Chapters(_)
Chapters(as) ==
  IF as = <<>> THEN <<>>
  ELSE (IF Qualifies(Head(as)) THEN <<Section(Head(as))>> ELSE <<>>)
       \o Chapters(Tail(as))

\* 1. fetch_articles(...)
Fetch ==
  /\ script = "RSS_script" /\ pc = "start"
  /\ articles' = fetch_articles(feeds, max_articles)
  /\ todo' = [k \in 1..Len(articles') |-> articles'[k].src]
  /\ pc' = "extract"
  /\ UNCHANGED <<script, feeds, max_articles, creds, file, sent, exit_code, trace>>

\* 2. one iteration of `for article in articles: extract_content(article)`
ExtractContent ==
  /\ script = "RSS_script" /\ pc = "extract" /\ todo # <<>>
  /\ LET k == Len(articles) - Len(todo) + 1
     IN  articles' = [articles EXCEPT ![k] = extract_content(articles[k])]
  /\ todo' = Tail(todo)
  /\ UNCHANGED <<script, pc, feeds, max_articles, creds, file, sent, exit_code, trace>>

\* 3. create_epub(articles, output_file); write_epub either writes the file
\*    or raises, and nothing in main catches it.
CreateEpub ==
  /\ script = "RSS_script" /\ pc = "extract" /\ todo = <<>>
  /\ \E written \in BOOLEAN :
       IF written
       THEN /\ file' = [origin |-> "this", sections |-> Chapters(articles)]
            /\ trace' = [trace EXCEPT !.render_started = TRUE]
            /\ pc' = "send"
            /\ UNCHANGED exit_code
       ELSE /\ trace' = [trace EXCEPT !.render_started = TRUE,
                                      !.render_failed = TRUE,
                                      !.crashed = "render"]
            /\ pc' = "done"
            /\ exit_code' = 1
            /\ UNCHANGED file
  /\ UNCHANGED <<script, feeds, max_articles, creds, articles, todo, sent>>

\* 4. send_to_kindle(output_file, CONFIG): any SMTP error is caught and
\*    printed; main then runs to its end.
SendToKindle ==
  /\ script = "RSS_script" /\ pc = "send"
  /\ \E delivered \in BOOLEAN :
       /\ sent' = IF delivered THEN Append(sent, file) ELSE sent
       /\ trace' = [trace EXCEPT !.send_started = TRUE,
                      !.delivery = IF delivered THEN "ok" ELSE "failed"]
  /\ pc' = "done"
  /\ UNCHANGED <<script, feeds, max_articles, creds, articles, todo, file, exit_code>>

\* ==================================================== rss_to_kindle.py
\* entry.title / entry.link raise AttributeError when the entry lacks them.
ParseRaises(feed) ==
  \E i \in 1..Len(ParsedEntries(feed)) :
     ~ParsedEntries(feed)[i].title \/ ~ParsedEntries(feed)[i].link

parse_rss_feed(f, feed) == [i \in 1..Len(ParsedEntries(feed)) |-> <<f, i>>]

\* main, lines 135-139: parse the feed, test the list, enter the loop over
\* parsed_articles[:args.max_articles].
KParse ==
  /\ script = "rss_to_kindle" /\ pc = "start"
  /\ IF ParseRaises(feeds[1])
     THEN /\ pc' = "done"
          /\ exit_code' = 1
          /\ trace' = [trace EXCEPT !.crashed = "parse"]
          /\ UNCHANGED todo
     ELSE LET parsed_articles == parse_rss_feed(1, feeds[1])
          IN  IF parsed_articles # <<>>
              THEN /\ todo' = Slice(parsed_articles, max_articles)
                   /\ pc' = "k_extract"
                   /\ UNCHANGED <<exit_code, trace>>
              ELSE /\ pc' = "done"
                   /\ UNCHANGED <<todo, exit_code, trace>>
  /\ UNCHANGED <<script, feeds, max_articles, creds, articles, file, sent>>

\* main, lines 139-145: one iteration of the loop.
KProcess ==
  /\ script = "rss_to_kindle" /\ pc = "k_extract" /\ todo # <<>>
  /\ LET article == Head(todo)
         content == extract_article_content(Entry(article).page)
     IN  articles' = Append(articles,
                       [src |-> article, date |-> 0, has_content |-> TRUE,
                        content |-> ReplaceBr(content)])
  /\ todo' = Tail(todo)
  /\ UNCHANGED <<script, pc, feeds, max_articles, creds, file, sent, exit_code, trace>>

\* convert_to_pdf: one <h1>/<div> block per article of the list.
RECURSIVE PdfSections(_)
PdfSections(as) ==
  IF as = <<>> THEN <<>> ELSE <<Section(Head(as))>> \o PdfSections(Tail(as))

\* main, lines 147-149: convert_to_pdf catches and prints a pdfkit error, and
\* main goes on to the credentials test.
KConvert ==
  /\ script = "rss_to_kindle" /\ pc = "k_extract" /\ todo = <<>>
  /\ \E written \in BOOLEAN :
       IF written
       THEN /\ file' = [origin |-> "this", sections |-> PdfSections(articles)]
            /\ trace' = [trace EXCEPT !.render_started = TRUE]
       ELSE /\ trace' = [trace EXCEPT !.render_started = TRUE,
                                      !.render_failed = TRUE]
            /\ UNCHANGED file
  /\ pc' = IF creds THEN "k_send" ELSE "done"
  /\ UNCHANGED <<script, feeds, max_articles, creds, articles, todo, sent, exit_code>>

\* send_email: open(attachment_path) is outside the try; the SMTP session is
\* inside it.
KSend ==
  /\ script = "rss_to_kindle" /\ pc = "k_send"
  /\ IF file.origin = "absent"
     THEN /\ exit_code' = 1
          /\ trace' = [trace EXCEPT !.send_started = TRUE, !.crashed = "send"]
          /\ UNCHANGED sent
     ELSE /\ \E delivered \in BOOLEAN :
               /\ sent' = IF delivered THEN Append(sent, file) ELSE sent
               /\ trace' = [trace EXCEPT !.send_started = TRUE,
                              !.delivery = IF delivered THEN "ok" ELSE "failed"]
          /\ UNCHANGED exit_code
  /\ pc' = "done"
  /\ UNCHANGED <<script, feeds, max_articles, creds, articles, todo, file>>

\* ============================================================== inputs
NoPage == [ok |-> FALSE, nodes |-> <<>>]

Node(t, c, x, d) == [tag |-> t, cls |-> c, text |-> x, depth |-> d]

MkEntry(pp, t, l, p, n) ==
  [published_parsed |-> pp, title |-> t, link |-> l, page |-> p, np |-> n]

Limits == 0..MaxLimit

InitTrace ==
  [render_started |-> FALSE, render_failed |-> FALSE, send_started |-> FALSE,
   delivery |-> "none", crashed |-> "no"]

NoFile == [origin |-> "absent", sections |-> <<>>]
EarlierFile == [origin |-> "earlier", sections |-> <<>>]

\* Feeds of at most n entries drawn from `kinds`, and the unreachable feed.
FeedsOver(kinds, n) ==
  UNION {{[reachable |-> TRUE, entries |-> s] : s \in [1..k -> kinds]} :
         k \in 0..n}
    \cup {[reachable |-> FALSE, entries |-> <<>>]}

InitRest ==
  /\ articles = <<>> /\ todo = <<>> /\ sent = <<>>
  /\ pc = "start" /\ exit_code = 0 /\ trace = InitTrace

\* ------------------------------------------------ inputs of the full run
\* Pages the article URLs of a run may serve.
LabelledPost ==
  [ok |-> TRUE,
   nodes |-> <<Node("div", {"post-body"}, TRUE, 1),
               Node("div", {"post-labels"}, TRUE, 2)>>]
LabelledArticle ==
  [ok |-> TRUE,
   nodes |-> <<Node("article", {}, TRUE, 1),
               Node("div", {"post-labels"}, TRUE, 2)>>]
BlankPost == [ok |-> TRUE, nodes |-> <<Node("div", {"post-body"}, FALSE, 1)>>]
PlainPage == [ok |-> TRUE, nodes |-> <<Node("span", {}, TRUE, 1)>>]

SamplePages == {LabelledPost, LabelledArticle, BlankPost, PlainPage, NoPage}

KindleKinds ==
  {MkEntry(<<>>, TRUE, TRUE, p, "text") : p \in SamplePages}
    \cup {MkEntry(<<>>, FALSE, TRUE, PlainPage, "text")}

ScriptKinds ==
  {MkEntry(<<Now>>, TRUE, TRUE, NoPage, n) : n \in {"error", "empty", "text"}}
    \cup {MkEntry(<<Now - (days_old + 1) * DayUnits>>, TRUE, TRUE, NoPage, "text"),
          MkEntry(<<>>, TRUE, TRUE, NoPage, "text"),
          MkEntry(<<Now>>, FALSE, TRUE, NoPage, "text")}

SampleListings(kinds) ==
  {<<>>} \cup {<<a>> : a \in kinds} \cup {<<a, b>> : a \in kinds, b \in kinds}

SampleFeeds(kinds) ==
  {[reachable |-> TRUE, entries |-> s] : s \in SampleListings(kinds)}
    \cup {[reachable |-> FALSE, entries |-> <<>>]}

Init ==
  /\ script \in {"RSS_script", "rss_to_kindle"}
  /\ max_articles \in Limits
  /\ file \in {NoFile, EarlierFile}
  /\ IF script = "RSS_script"
     THEN /\ creds = TRUE
          /\ feeds \in {<<a, b>> : a \in SampleFeeds(ScriptKinds),
                                   b \in SampleFeeds({MkEntry(<<Now>>, TRUE, TRUE, NoPage, "text")})}
     ELSE /\ creds \in BOOLEAN
          /\ feeds \in {<<a>> : a \in SampleFeeds(KindleKinds)}
  /\ InitRest

Next ==
  \/ Fetch
  \/ ExtractContent
  \/ CreateEpub
  \/ SendToKindle
  \/ KParse
  \/ KProcess
  \/ KConvert
  \/ KSend

Spec == Init /\ [][Next]_vars

\* --------------------------------------- inputs of the collection step
FetchKinds ==
  {MkEntry(<<d>>, TRUE, TRUE, NoPage, "text") :
      d \in {cutoff_date - 1, cutoff_date, cutoff_date + 1}}
    \cup {MkEntry(<<>>, TRUE, TRUE, NoPage, "text"),
          MkEntry(<<cutoff_date + 1>>, FALSE, TRUE, NoPage, "text"),
          MkEntry(<<cutoff_date + 1>>, TRUE, FALSE, NoPage, "text")}

\* Entries 0.5, 0.9, 1.5, 2 and 3 days old.
ScenarioFeed ==
  [reachable |-> TRUE,
   entries |-> [i \in 1..5 |->
                  MkEntry(<<Now - <<5, 9, 15, 20, 30>>[i]>>, TRUE, TRUE, NoPage, "text")]]

InitFetch ==
  /\ script \in {"RSS_script", "rss_to_kindle"}
  /\ file = NoFile
  /\ creds = TRUE
  /\ IF script = "RSS_script"
     THEN \E a \in FeedsOver(FetchKinds, MaxEntries) \cup {ScenarioFeed} :
            \E b \in FeedsOver(FetchKinds, MaxEntries) :
               feeds \in IF a = ScenarioFeed THEN {<<a>>, <<a, b>>}
                                             ELSE {<<a, b>>}
     ELSE \E a \in FeedsOver(FetchKinds, MaxEntries) \cup {ScenarioFeed} :
            feeds = <<a>>
  /\ max_articles \in Limits
  /\ InitRest

NextFetch ==
  \/ Fetch
  \/ KParse

SpecFetch == InitFetch /\ [][NextFetch]_vars

\* ------------------------------------------- inputs of the extraction
NodeKinds ==
  {[tag |-> "div", cls |-> c, text |-> TRUE] :
      c \in {{}, {"post-body"}, {"content"}, {"post"}, {"post-labels"}}}
    \cup {[tag |-> "article", cls |-> c, text |-> TRUE] :
      c \in {{}, {"post-body"}, {"post-labels"}}}
    \cup {[tag |-> "div", cls |-> {"post-body"}, text |-> FALSE],
          [tag |-> "span", cls |-> {}, text |-> TRUE]}

\* The well-formed nestings of n elements in document order: the first is
\* at depth 1 and each next one at most one level deeper than its predecessor.
ValidDepths(n) ==
  {d \in [1..n -> 1..n] :
     \A i \in 1..n : d[i] <= (IF i = 1 THEN 0 ELSE d[i - 1]) + 1}

\* Every page of at most MaxNodes elements, and the page that cannot be
\* fetched.
InitExtract ==
  /\ script = "rss_to_kindle"
  /\ max_articles = MaxLimit
  /\ file = NoFile
  /\ creds = TRUE
  /\ \E ok \in BOOLEAN :
       \E n \in 0..(IF ok THEN MaxNodes ELSE 0) :
         \E ks \in [1..n -> NodeKinds] :
           \E ds \in ValidDepths(n) :
             feeds =
               <<[reachable |-> TRUE,
                  entries |->
                    <<MkEntry(<<>>, TRUE, TRUE,
                              [ok |-> ok,
                               nodes |-> [i \in 1..n |->
                                            Node(ks[i].tag, ks[i].cls,
                                                 ks[i].text, ds[i])]],
                              "text")>>]>>
  /\ InitRest

NextExtract ==
  \/ KParse
  \/ KProcess

SpecExtract == InitExtract /\ [][NextExtract]_vars

\* ================================================================ claims
\* Vocabulary of the properties (none of it is used by the model).
Listed(f) == ParsedEntries(feeds[f])
Considered(f) == 1..Min(max_articles, Len(Listed(f)))
Parses(e) == e.published_parsed # <<>>
PublishedAt(e) == e.published_parsed[1]
Cutoff == Now - days_old * DayUnits
Complete(e) == e.title /\ e.link
Retained(f, i) == \E k \in 1..Len(articles) : articles[k].src = <<f, i>>
Collected == script = "RSS_script" /\ pc = "extract"
Sources == [k \in 1..Len(articles) |-> articles[k].src]
Before(s, t) == s[1] < t[1] \/ (s[1] = t[1] /\ s[2] < t[2])
Upto(n) == [i \in 1..n |-> i]

\* C1 as stated: every considered entry whose date parses is retained if and
\* only if publishedAt >= cutoff.
C1_AsStated ==
  Collected =>
    \A f \in 1..Len(feeds) : \A i \in Considered(f) :
       Parses(Listed(f)[i]) =>
         (Retained(f, i) <=> PublishedAt(Listed(f)[i]) >= Cutoff)

\* C1 (amended): among the considered entries whose date parses, none that is
\* strictly older than the cutoff is retained, and one published at or after
\* the cutoff (the cutoff itself included) is retained when it has a title and
\* a link.
C1_AgeFilter ==
  Collected =>
    \A f \in 1..Len(feeds) : \A i \in Considered(f) :
       Parses(Listed(f)[i]) =>
         /\ Retained(f, i) => PublishedAt(Listed(f)[i]) >= Cutoff
         /\ (PublishedAt(Listed(f)[i]) >= Cutoff /\ Complete(Listed(f)[i]))
               => Retained(f, i)

C1_Witness ==
  /\ Collected
  /\ \E f \in 1..Len(feeds) : \E i, j \in Considered(f) :
        /\ Parses(Listed(f)[i]) /\ PublishedAt(Listed(f)[i]) = Cutoff
        /\ Retained(f, i)
        /\ Parses(Listed(f)[j]) /\ PublishedAt(Listed(f)[j]) < Cutoff
        /\ ~Retained(f, j)

FreshEntry(e) == Parses(e) /\ PublishedAt(e) >= Cutoff
FreshComplete(e) == FreshEntry(e) /\ Complete(e)

\* Sources of the considered entries of feed f that are fresh, in order.
SurvivingFresh(f) ==
  LET Keep(i) == FreshEntry(Listed(f)[i])
      kept == SelectSeq(Upto(Min(max_articles, Len(Listed(f)))), Keep)
  IN  [k \in 1..Len(kept) |-> <<f, kept[k]>>]

\* The same, keeping only the entries that also have a title and a link.
SurvivingComplete(f) ==
  LET Keep(i) == FreshComplete(Listed(f)[i])
      kept == SelectSeq(Upto(Min(max_articles, Len(Listed(f)))), Keep)
  IN  [k \in 1..Len(kept) |-> <<f, kept[k]>>]

FromFeed(f) == LET Of(s) == s[1] = f IN SelectSeq(Sources, Of)

ScenarioResult ==
  (feeds = <<ScenarioFeed>> /\ max_articles = 3) => Sources = <<<<1, 1>>, <<1, 2>>>>

\* C3 as stated: the result is exactly the entries among the first `limit`
\* listed ones whose publishedAt >= cutoff.
C3_AsStated ==
  Collected =>
    /\ \A f \in 1..Len(feeds) : FromFeed(f) = SurvivingFresh(f)
    /\ ScenarioResult

\* C3 (amended): the result is exactly the entries among the first `limit`
\* listed ones that have a title and a link and whose publishedAt >= cutoff,
\* so nothing listed after position `limit` is returned; the five-entry
\* scenario with limit 3 yields its first two entries.
C3_CapThenFilter ==
  Collected =>
    /\ \A f \in 1..Len(feeds) : FromFeed(f) = SurvivingComplete(f)
    /\ ScenarioResult

C3_Witness ==
  /\ Collected
  /\ feeds = <<ScenarioFeed>>
  /\ max_articles = 3
  /\ Len(articles) = 2

\* ---- extraction: the page served for the one processed article
Processed == script = "rss_to_kindle" /\ pc = "k_extract" /\ Len(articles) = 1
ThePage == Entry(articles[1].src).page
TheNodes == ThePage.nodes
TheContent == articles[1].content
TextIn(content) == {content[k] : k \in 1..Len(content)} \ {"<br>"}
First(S) == CHOOSE i \in S : \A j \in S : i <= j
PostBodies == {i \in 1..Len(TheNodes) :
                 TheNodes[i].tag = "div" /\ "post-body" \in TheNodes[i].cls}
ArticleTags == {i \in 1..Len(TheNodes) : TheNodes[i].tag = "article"}
ContentDivs == {i \in 1..Len(TheNodes) :
                  TheNodes[i].tag = "div" /\ "content" \in TheNodes[i].cls}
PostDivs == {i \in 1..Len(TheNodes) :
               TheNodes[i].tag = "div" /\ "post" \in TheNodes[i].cls}
\* The container the priority order designates, 0 when there is none.
Designated ==
  IF PostBodies # {} THEN First(PostBodies)
  ELSE IF ArticleTags # {} THEN First(ArticleTags)
  ELSE IF ContentDivs # {} THEN First(ContentDivs)
  ELSE IF PostDivs # {} THEN First(PostDivs)
  ELSE 0
Inside(i) == {i} \cup Descendants(TheNodes, i)
\* Elements in or under a post-labels div nested in container i.
NestedLabels(i) ==
  {j \in Descendants(TheNodes, i) :
     \E d \in Descendants(TheNodes, i) :
        /\ TheNodes[d].tag = "div" /\ "post-labels" \in TheNodes[d].cls
        /\ j \in Inside(d)}

\* C4: the text of a fetched page comes from the post-body div if there is
\* one, else from the <article> element, else from the 'content' div, else
\* from the 'post' div; a page with a container never yields the failure text
\* and a lower-priority container is never the source when a higher-priority
\* one exists.
C4_HeuristicOrder ==
  (Processed /\ ThePage.ok) =>
    IF Designated = 0
    THEN TheContent = CouldNotExtract
    ELSE /\ TextIn(TheContent) \subseteq
              {Tok[j] : j \in {i \in Inside(Designated) : TheNodes[i].text}}
         /\ TheNodes[Designated].text => Tok[Designated] \in TextIn(TheContent)
         /\ PostBodies = {} =>
              TextIn(TheContent) =
                {Tok[j] : j \in {i \in Inside(Designated) : TheNodes[i].text}}

C4_Witness ==
  /\ Processed /\ ThePage.ok
  /\ PostBodies = {} /\ ArticleTags # {} /\ ContentDivs # {}
  /\ First(ContentDivs) < First(ArticleTags)
  /\ First(ContentDivs) \notin Inside(First(ArticleTags))
  /\ TheContent = <<Tok[First(ArticleTags)]>>

\* C5 as stated: whichever heuristic matched, the content holds no text of a
\* post-labels block nested in the matched container.
C5_AsStated ==
  (Processed /\ ThePage.ok /\ Designated # 0) =>
    \A j \in NestedLabels(Designated) : Tok[j] \notin TextIn(TheContent)

\* C5 (amended): when the post-body heuristic matches, every post-labels div
\* nested in the post-body div is removed before the text is taken, so the
\* content holds no text of such a block.
C5_LabelsStripped ==
  (Processed /\ ThePage.ok /\ PostBodies # {}) =>
    \A j \in NestedLabels(Designated) : Tok[j] \notin TextIn(TheContent)

C5_Witness ==
  /\ Processed /\ ThePage.ok /\ PostBodies # {}
  /\ \E j \in NestedLabels(Designated) : TheNodes[j].text
  /\ TheContent = <<Tok[Designated]>>

\* ---- the whole run
Rendered == file.origin = "this"
Ended == pc = "done"
NoHeuristicMatches(page) ==
  \A i \in 1..Len(page.nodes) :
     /\ ~(page.nodes[i].tag = "div" /\ "post-body" \in page.nodes[i].cls)
     /\ page.nodes[i].tag # "article"
     /\ ~(page.nodes[i].tag = "div" /\ "content" \in page.nodes[i].cls)
     /\ ~(page.nodes[i].tag = "div" /\ "post" \in page.nodes[i].cls)
\* The extraction of the entry failed: the fetch failed or nothing matched
\* (rss_to_kindle.py); download or parse raised (RSS_script.py).
ExtractionFailed(src) ==
  IF script = "rss_to_kindle"
  THEN ~Entry(src).page.ok \/ NoHeuristicMatches(Entry(src).page)
  ELSE Entry(src).np = "error"
HasContent(a) == a.has_content /\ a.content # <<>>
QualifyingSources ==
  LET srcs == SelectSeq(articles, HasContent)
  IN  [k \in 1..Len(srcs) |-> srcs[k].src]
SectionSources == [k \in 1..Len(file.sections) |-> file.sections[k].src]

\* C6: an article whose extraction failed (fetch failure or no heuristic
\* match) has no section in the document the run renders.
C6_FailedExtractionDropped ==
  Rendered =>
    \A k \in 1..Len(file.sections) : ~ExtractionFailed(file.sections[k].src)

\* C7: the rendered document (EPUB or PDF) has a section for an article only
\* if its content is present and non-empty, and the sections are exactly the
\* qualifying articles in input order.
C7_RendererInvariant ==
  Rendered =>
    /\ \A k \in 1..Len(file.sections) : file.sections[k].content # <<>>
    /\ SectionSources = QualifyingSources

\* C8: a finished run has a non-zero exit code exactly when it produced no
\* document or its delivery failed.
C8_ExitStatus ==
  Ended =>
    (exit_code # 0 <=> (~Rendered \/ trace.delivery = "failed"))

\* C9: once the render step has failed the delivery step is never started,
\* and every e-mail sent carries a document this run produced.
C9_RenderFailureFatal ==
  /\ trace.render_failed => ~trace.send_started
  /\ \A k \in 1..Len(sent) : sent[k].origin = "this"

\* C10: no feed, entry or extraction error aborts the run: a run never ends in
\* an uncaught error raised while its feeds and entries are being read.
C10_ErrorsIsolated ==
  Ended => trace.crashed # "parse"

====
